---- MODULE Spec2Model ----
(***************************************************************************)
(* Model of the iris classification service: src/utils.py (load_data,     *)
(* preprocess_data), src/model.py (train, test, predict) and src/app.py   *)
(* (the /train, /predict and /info handlers) over one artifact file.      *)
(***************************************************************************)
EXTENDS Integers, Sequences, FiniteSets, TLC

VARIABLES
    MODEL_PATH,   \* app.py:22, the configured artifact location (path components)
    writable,     \* whether the artifact file can be opened for writing
    dirs,         \* directories that exist on disk
    file,         \* content of the file at the artifact location, or NoFile
    trainReq,     \* locals and position of the /train handler (train_model)
    predictReq,   \* locals and position of the /predict handler (predict_endpoint)
    infoReq,      \* locals and position of the /info handler (model_info)
    splitCall,    \* one call of utils.preprocess_data: arguments and outcome
    libCall       \* the calls of tests/test_app.py TestModel.test_predict

vars == <<MODEL_PATH, writable, dirs, file, trainReq, predictReq, infoReq,
          splitCall, libCall>>

(***************************************************************************)
(* Bounds                                                                  *)
(***************************************************************************)
MaxRows == 6
TestSizeDen == 10
MaxTrainRows == 2
MaxBatch == 2

Classes == {"Iris-setosa", "Iris-versicolor", "Iris-virginica"}

None == "None"

RECURSIVE SumOver(_, _)
SumOver(f, S) ==
    IF S = {} THEN 0
    ELSE LET c == CHOOSE c \in S : TRUE IN f[c] + SumOver(f, S \ {c})

Ok(v) == [ok |-> TRUE, value |-> v]
Raise(type, msg) == [ok |-> FALSE, type |-> type, msg |-> msg]

(***************************************************************************)
(* utils.preprocess_data: a stratified train/test split                    *)
(* (sklearn.model_selection.train_test_split with stratify=y).            *)
(* A table is a sequence of rows [x |-> features, y |-> label]; test_size *)
(* is the rational num/den.  The shuffle under random_state is opaque, so *)
(* the operator yields the set of every outcome some shuffle produces; a  *)
(* subset is kept as the set of its row numbers.                           *)
(***************************************************************************)
LabelsOf(data) == {data[i].y : i \in 1..Len(data)}

RowsOfClass(data, c) == {i \in 1..Len(data) : data[i].y = c}

class_counts(data) == [c \in LabelsOf(data) |-> Cardinality(RowsOfClass(data, c))]

\* a slip: the test size truncated, int(test_size * n_samples)
n_test_truncated(n, test_size) == (test_size.num * n) \div test_size.den

\* n_test = ceil(test_size * n_samples)
n_test_of(n, test_size) ==
    (test_size.num * n + test_size.den - 1) \div test_size.den

\* n_train = n_samples - n_test (train_size is None)
n_train_of(n, test_size) == n - n_test_of(n, test_size)

\* sklearn _approximate_mode: floor of the proportional share, the draws left
\* over going to the classes with the largest remainders, ties broken by rng
_approximate_mode(counts, n_draws) ==
    LET cs == DOMAIN counts
        total == SumOver(counts, cs)
        floored == [c \in cs |-> (counts[c] * n_draws) \div total]
        remainder == [c \in cs |-> (counts[c] * n_draws) % total]
        need_to_add == n_draws - SumOver(floored, cs)
        picks == {S \in SUBSET cs :
                    /\ Cardinality(S) = need_to_add
                    /\ \A i \in S, j \in cs \ S : remainder[i] >= remainder[j]}
    IN  {[c \in cs |-> floored[c] + (IF c \in S THEN 1 ELSE 0)] : S \in picks}

\* the subsets of avail holding k[c] rows of every class c
ChooseRows(data, avail, k) ==
    {T \in SUBSET avail :
        \A c \in LabelsOf(data) : Cardinality(T \cap RowsOfClass(data, c)) = k[c]}

\* StratifiedShuffleSplit._iter_indices: per class, the first n_i rows of a
\* permutation go to train and the next t_i rows to test
StratifiedIndices(data, n_train, n_test) ==
    LET n == Len(data)
        cs == LabelsOf(data)
        counts == class_counts(data)
    IN  UNION { UNION { UNION {
          {[train |-> tr, test |-> te] : te \in ChooseRows(data, (1..n) \ tr, t_i)}
            : tr \in ChooseRows(data, 1..n, n_i) }
            : t_i \in _approximate_mode([c \in cs |-> counts[c] - n_i[c]], n_test) }
            : n_i \in _approximate_mode(counts, n_train) }

\* train_test_split(X, y, test_size, random_state, stratify=y): the checks of
\* _validate_shuffle_split, then those of StratifiedShuffleSplit, in order
train_test_split(data, test_size) ==
    LET n == Len(data)
        n_test == n_test_of(n, test_size)
        n_train == n_train_of(n, test_size)
        counts == class_counts(data)
        n_classes == Cardinality(LabelsOf(data))
    IN  IF test_size.num <= 0 \/ test_size.num >= test_size.den
          THEN {Raise("ValueError", "test_size should be in the (0, 1) range")}
        ELSE IF n_train = 0
          THEN {Raise("ValueError", "the resulting train set will be empty")}
        ELSE IF \E c \in LabelsOf(data) : counts[c] < 2
          THEN {Raise("ValueError", "the least populated class has only 1 member")}
        ELSE IF n_train < n_classes
          THEN {Raise("ValueError", "train_size should be >= the number of classes")}
        ELSE IF n_test < n_classes
          THEN {Raise("ValueError", "test_size should be >= the number of classes")}
        ELSE {Ok(s) : s \in StratifiedIndices(data, n_train, n_test)}

\* utils.preprocess_data: every failure is logged and re-raised unchanged
preprocess_data(data, test_size) == train_test_split(data, test_size)

\* X_train.shape[0], X_test.shape[0]
Shape0(rows) == Cardinality(rows)

(***************************************************************************)
(* Inputs of the split                                                     *)
(***************************************************************************)
TableOf(labels) == [i \in 1..Len(labels) |-> [x |-> <<i>>, y |-> labels[i]]]

Tables == {TableOf(l) : l \in UNION {[1..k -> Classes] : k \in 0..MaxRows}}

TestSizes == [num : 0..TestSizeDen, den : {TestSizeDen}]

NoResult == [ok |-> FALSE, type |-> None, msg |-> None]

SplitInit ==
    splitCall \in [data : Tables, test_size : TestSizes, result : {NoResult}]

preprocess_data_call ==
    /\ splitCall.result = NoResult
    /\ \E r \in preprocess_data(splitCall.data, splitCall.test_size) :
          splitCall' = [splitCall EXCEPT !.result = r]

(***************************************************************************)
(* The estimator (sklearn RandomForestClassifier) as model.py uses it.    *)
(* Its trained state is opaque: a fitted forest is some mapping from      *)
(* feature values to the classes seen at fit time, here read off the      *)
(* first feature.                                                          *)
(***************************************************************************)
FeatureVals == 0..1

NoModel == [type |-> None]

DefaultParams == "n_estimators=100,max_depth=10,random_state=42"

\* RandomForestClassifier(**model_params).fit(X_train, y_train), model.py:52-60
\* rows: a set of rows [x, y]; every fitted forest the seed could produce
RandomForestClassifier_fit(rows, model_params) ==
    LET params == IF model_params = None THEN DefaultParams ELSE model_params
        classes == {r.y : r \in rows}
        widths == {Len(r.x) : r \in rows}
    IN  IF params = "bogus=1"
          THEN {Raise("TypeError", "unexpected keyword argument")}
        ELSE IF rows = {}
          THEN {Raise("ValueError", "Found array with 0 sample(s)")}
        ELSE {Ok([type |-> "RandomForestClassifier",
                  params |-> params,
                  n_features_in_ |-> CHOOSE w \in widths : TRUE,
                  classes_ |-> classes,
                  tree |-> t]) : t \in [FeatureVals -> classes]}

\* model.predict(X): X a sequence of feature vectors (a 2-D array); the
\* estimator itself rejects a width other than n_features_in_
model_predict(model, X) ==
    IF \E i \in 1..Len(X) : Len(X[i]) # model.n_features_in_
      THEN Raise("ValueError", "X has a different number of features")
    ELSE Ok([i \in 1..Len(X) |-> model.tree[X[i][1]]])

\* model.score(X_test, y_test): <<hits, rows>>, the accuracy hits/rows
model_score(model, rows) ==
    <<Cardinality({r \in rows : model.tree[r.x[1]] = r.y}), Cardinality(rows)>>

(***************************************************************************)
(* The artifact file: joblib.dump writes the pickle of the estimator to   *)
(* the path it opened with "wb", piece by piece; joblib.load reads back   *)
(* what the file holds.                                                    *)
(***************************************************************************)
NoFile == [exists |-> FALSE, content |-> <<>>]

NoPath == <<>>

\* the pickle stream of a fitted estimator, as the pieces written in order
pickle_dumps(model) ==
    << <<"type", model.type>>, <<"params", model.params>>,
       <<"n_features_in_", model.n_features_in_>>,
       <<"classes_", model.classes_>>, <<"tree", model.tree>> >>

PickleLen == Len(pickle_dumps([type |-> "", params |-> "", n_features_in_ |-> 0,
                               classes_ |-> {}, tree |-> <<>>]))

\* joblib.load(path): the estimator a complete stream holds; a missing file
\* or a stream that ends early raises
joblib_load(f) ==
    IF ~f.exists
      THEN Raise("FileNotFoundError", "No such file or directory")
    ELSE IF Len(f.content) < PickleLen
      THEN Raise("EOFError", "Ran out of input")
    ELSE Ok([type |-> f.content[1][2], params |-> f.content[2][2],
             n_features_in_ |-> f.content[3][2], classes_ |-> f.content[4][2],
             tree |-> f.content[5][2]])

\* a slip: the existence check always passing
os_path_exists_always(f) == TRUE

\* os.path.exists(path)
os_path_exists(f) == f.exists

\* os.path.dirname(path), a path being its sequence of components
os_path_dirname(path) == SubSeq(path, 1, Len(path) - 1)

\* os.makedirs(name, exist_ok=True): the empty name raises
os_makedirs(d, name) ==
    IF name = <<>>
      THEN Raise("FileNotFoundError", "No such file or directory: ''")
    ELSE Ok(d \cup {SubSeq(name, 1, k) : k \in 1..Len(name)})

\* open(model_path, "wb") inside joblib.dump: truncates, or is refused
open_wb(w) ==
    IF w THEN Ok([exists |-> TRUE, content |-> <<>>]) ELSE Raise("PermissionError", "Permission denied")

(***************************************************************************)
(* model.py                                                                *)
(***************************************************************************)
\* model.train, lines 49-70, run without interruption: fit, makedirs, dump.
\* Each outcome: what train returns or raises, and the disk it leaves.
train(rows, model_params, model_path, d, f, w) ==
    UNION {
      IF ~m.ok THEN {[result |-> m, dirs |-> d, file |-> f]}
      ELSE LET mk == os_makedirs(d, os_path_dirname(model_path))
               op == open_wb(w)
           IN  IF ~mk.ok THEN {[result |-> mk, dirs |-> d, file |-> f]}
               ELSE IF ~op.ok THEN {[result |-> op, dirs |-> mk.value, file |-> f]}
               ELSE {[result |-> m, dirs |-> mk.value,
                      file |-> [exists |-> TRUE, content |-> pickle_dumps(m.value)]]}
      : m \in RandomForestClassifier_fit(rows, model_params) }

\* model.test (and evaluate_model), lines 27-34
test(model, rows) == model_score(model, rows)

\* a slip: the load guarded by the wrong test of model_path
predict_without_load(model, X, model_path, f) ==
    LET loaded == IF model = NoModel /\ model_path = NoPath
                    THEN joblib_load(f) ELSE Ok(model)
    IN  IF ~loaded.ok THEN loaded
        ELSE IF loaded.value = NoModel
          THEN Raise("ValueError", "Either model or model_path must be provided")
        ELSE model_predict(loaded.value, X)

\* model.predict, lines 105-121; f is what model_path holds
predict(model, X, model_path, f) ==
    LET loaded == IF model = NoModel /\ model_path # NoPath
                    THEN joblib_load(f) ELSE Ok(model)
    IN  IF ~loaded.ok THEN loaded
        ELSE IF loaded.value = NoModel
          THEN Raise("ValueError", "Either model or model_path must be provided")
        ELSE model_predict(loaded.value, X)

(***************************************************************************)
(* tests/test_app.py TestModel.test_predict: train, predict with the      *)
(* model in memory, predict again with model=None and the path.  The      *)
(* path is the one the test passes or the default of train's signature.   *)
(***************************************************************************)
Dims == {1, 2}

LibClasses == {"Iris-setosa", "Iris-versicolor"}

LibRows(D) == [x : [1..D -> FeatureVals], y : LibClasses]

LibTrainSets ==
    UNION {{R \in SUBSET LibRows(D) :
              Cardinality(R) >= 1 /\ Cardinality(R) <= MaxTrainRows} : D \in Dims}

LibBatches ==
    UNION {[1..k -> [1..D -> FeatureVals]] : <<k, D>> \in (1..MaxBatch) \X Dims}

TestPath == <<"tmp", "test_model.joblib">>

DefaultPath == <<"model.joblib">>   \* model.py:36

LibInit ==
    libCall \in [pc : {"start"}, X_train : LibTrainSets, X : LibBatches,
                 model : {NoModel}, raised : {NoResult},
                 predictions : {NoResult}, predictions2 : {NoResult}]

\* model = train(self.X_train, self.y_train, model_path=...)
lib_train ==
    /\ libCall.pc = "start"
    /\ \E o \in train(libCall.X_train, None, MODEL_PATH, dirs, file, writable) :
          /\ dirs' = o.dirs
          /\ file' = o.file
          /\ libCall' = IF o.result.ok
                          THEN [libCall EXCEPT !.pc = "trained",
                                               !.model = o.result.value]
                          ELSE [libCall EXCEPT !.pc = "failed",
                                               !.raised = o.result]
    /\ UNCHANGED <<MODEL_PATH, writable, trainReq, predictReq, infoReq, splitCall>>

\* predictions = predict(model, X)
lib_predict ==
    /\ libCall.pc = "trained"
    /\ libCall' = [libCall EXCEPT
                     !.pc = "predicted",
                     !.predictions = predict(libCall.model, libCall.X, NoPath, file)]
    /\ UNCHANGED <<MODEL_PATH, writable, dirs, file, trainReq, predictReq, infoReq,
                   splitCall>>

\* predictions2 = predict(None, X, model_path=self.model_path)
lib_predict_path ==
    /\ libCall.pc = "predicted"
    /\ libCall' = [libCall EXCEPT
                     !.pc = "done",
                     !.predictions2 = predict(NoModel, libCall.X, MODEL_PATH, file)]
    /\ UNCHANGED <<MODEL_PATH, writable, dirs, file, trainReq, predictReq, infoReq,
                   splitCall>>

(***************************************************************************)
(* utils.load_data and the inputs of the service                           *)
(***************************************************************************)
IrisUrl == "https://archive.ics.uci.edu/ml/machine-learning-databases/iris/iris.data"

Urls == {IrisUrl, "http://data/one-of-a-class.data"}

\* what each locator serves: feature columns first, the class column last
Dataset(url) ==
    IF url = IrisUrl
      THEN << [x |-> <<0, 0>>, y |-> "Iris-setosa"],
              [x |-> <<0, 1>>, y |-> "Iris-setosa"],
              [x |-> <<1, 0>>, y |-> "Iris-versicolor"],
              [x |-> <<1, 1>>, y |-> "Iris-versicolor"] >>
      ELSE << [x |-> <<0, 0>>, y |-> "Iris-setosa"],
              [x |-> <<0, 1>>, y |-> "Iris-setosa"],
              [x |-> <<1, 1>>, y |-> "Iris-virginica"] >>

\* utils.load_data, lines 25-38: requests.get may fail, raise_for_status may
\* raise, otherwise the parsed table; failures are re-raised unchanged
load_data(url) ==
    {Ok(Dataset(url)),
     Raise("ConnectionError", "Failed to establish a new connection"),
     Raise("HTTPError", "404 Client Error")}

\* test_size = float(params.get('test_size', 0.2)): the default and one override
ServiceTestSizes == {[num |-> 1, den |-> 5], [num |-> 1, den |-> 2]}

\* model_params = params.get('model_params', None)
ServiceModelParams == {None, "bogus=1"}

RowSet(data, idx) == {data[i] : i \in idx}

(***************************************************************************)
(* Request bodies of /predict (request.get_json())                         *)
(***************************************************************************)
Body(type, n, flat, rows) == [type |-> type, n |-> n, flat |-> flat, rows |-> rows]

Bodies ==
    { Body("null", 0, <<>>, <<>>),                 \* null
      Body("object", 0, <<>>, <<>>),               \* {}
      Body("object", 1, <<>>, <<>>),               \* {"a": 1}
      Body("number", 0, <<>>, <<>>),               \* 0
      Body("number", 5, <<>>, <<>>),               \* 5
      Body("string", 0, <<>>, <<>>),               \* ""
      Body("string", 1, <<>>, <<>>),               \* "x"
      Body("list", 0, <<>>, <<>>),                 \* []
      Body("list", 2, <<0, 1>>, <<>>),             \* [0, 1]
      Body("list", 3, <<0, 1, 1>>, <<>>),          \* [0, 1, 1]
      Body("list", 2, <<>>, << <<0, 1>>, <<1, 0>> >>),  \* [[0, 1], [1, 0]]
      Body("list", 1, <<>>, << <<1>> >>) }         \* [[1]]

\* Python truth value of the parsed body: `not features`
Truthy(b) == b.n # 0

\* isinstance(features, list)
IsList(b) == b.type = "list"

\* X = np.array(features); a 1-D array is reshaped to one row
np_array(b) == IF b.flat # <<>> THEN <<b.flat>> ELSE b.rows

(***************************************************************************)
(* Responses (jsonify(...), status code)                                   *)
(***************************************************************************)
NoResponse == [status |-> None]

ErrorResponse(code, message) ==
    [status |-> "error", code |-> code, message |-> message]

ModelNotFound == ErrorResponse(404, "Model not found. Train the model first.")

NoFeatures == ErrorResponse(400, "No features provided")

InvalidFormat == ErrorResponse(400, "Invalid input format. Expected list of features.")

\* the except branch of every handler: 500 and str(e)
Error500(e) == ErrorResponse(500, e.msg)

VERSION == "v1.0.0"

AppPath == <<"models", "iris_model.joblib">>   \* app.py:22

(***************************************************************************)
(* app.train_model (POST /train), lines 39-73                              *)
(***************************************************************************)
NoSplit == [train |-> {}, test |-> {}]

IdleTrain ==
    [pc |-> "idle", url |-> None, test_size |-> [num |-> 0, den |-> 1],
     model_params |-> None, data |-> <<>>, split |-> NoSplit, model |-> NoModel,
     written |-> 0, steps |-> <<>>, before |-> NoFile, raised |-> NoResult,
     response |-> NoResponse]

\* the handler's except branch: log, answer 500 with str(e); locals are dropped
TrainFailed(e) ==
    [trainReq EXCEPT !.pc = "Failed", !.raised = e, !.response = Error500(e),
                     !.data = <<>>, !.split = NoSplit, !.model = NoModel,
                     !.written = 0]

train_model_request ==
    /\ trainReq.pc \in {"idle", "Done", "Failed"}
    /\ \E url \in Urls, ts \in ServiceTestSizes, mp \in ServiceModelParams :
          trainReq' = [IdleTrain EXCEPT !.pc = "Fetching", !.url = url,
                                        !.test_size = ts, !.model_params = mp,
                                        !.before = file]
    /\ UNCHANGED <<MODEL_PATH, writable, dirs, file, predictReq, infoReq,
                   splitCall, libCall>>

\* data = load_data(url)
train_model_load_data ==
    /\ trainReq.pc = "Fetching"
    /\ \E r \in load_data(trainReq.url) :
          trainReq' = IF r.ok
                        THEN [trainReq EXCEPT !.pc = "Splitting", !.data = r.value,
                                              !.steps = Append(@, "Fetching")]
                        ELSE TrainFailed(r)
    /\ UNCHANGED <<MODEL_PATH, writable, dirs, file, predictReq, infoReq,
                   splitCall, libCall>>

\* X_train, X_test, y_train, y_test = preprocess_data(data, test_size=test_size)
train_model_preprocess_data ==
    /\ trainReq.pc = "Splitting"
    /\ \E r \in preprocess_data(trainReq.data, trainReq.test_size) :
          trainReq' = IF r.ok
                        THEN [trainReq EXCEPT !.pc = "Fitting", !.split = r.value,
                                              !.steps = Append(@, "Splitting")]
                        ELSE TrainFailed(r)
    /\ UNCHANGED <<MODEL_PATH, writable, dirs, file, predictReq, infoReq,
                   splitCall, libCall>>

\* train(...), model.py:59-60: construct and fit
train_model_fit ==
    /\ trainReq.pc = "Fitting"
    /\ \E m \in RandomForestClassifier_fit(
                   RowSet(trainReq.data, trainReq.split.train), trainReq.model_params) :
          trainReq' = IF m.ok
                        THEN [trainReq EXCEPT !.pc = "Persisting", !.model = m.value,
                                              !.steps = Append(@, "Fitting")]
                        ELSE TrainFailed(m)
    /\ UNCHANGED <<MODEL_PATH, writable, dirs, file, predictReq, infoReq,
                   splitCall, libCall>>

\* train(...), model.py:63-64: makedirs, then joblib.dump opens the file
train_model_dump_open ==
    /\ trainReq.pc = "Persisting"
    /\ LET mk == os_makedirs(dirs, os_path_dirname(MODEL_PATH))
           op == open_wb(writable)
       IN  IF ~mk.ok
             THEN trainReq' = TrainFailed(mk) /\ UNCHANGED <<dirs, file>>
           ELSE IF ~op.ok
             THEN trainReq' = TrainFailed(op) /\ dirs' = mk.value /\ UNCHANGED file
           ELSE /\ trainReq' = [trainReq EXCEPT !.pc = "Dumping"]
                /\ dirs' = mk.value
                /\ file' = op.value
    /\ UNCHANGED <<MODEL_PATH, writable, predictReq, infoReq, splitCall, libCall>>

\* joblib.dump writes the next piece of the pickle
train_model_dump_write ==
    /\ trainReq.pc = "Dumping"
    /\ trainReq.written < PickleLen
    /\ file' = [file EXCEPT !.content =
                  Append(@, pickle_dumps(trainReq.model)[trainReq.written + 1])]
    /\ trainReq' = [trainReq EXCEPT !.written = @ + 1]
    /\ UNCHANGED <<MODEL_PATH, writable, dirs, predictReq, infoReq, splitCall, libCall>>

\* joblib.dump closes the file and train returns the model, model.py:65-67
train_model_dump_close ==
    /\ trainReq.pc = "Dumping"
    /\ trainReq.written = PickleLen
    /\ trainReq' = [trainReq EXCEPT !.pc = "Scoring",
                                    !.steps = Append(@, "Persisting")]
    /\ UNCHANGED <<MODEL_PATH, writable, dirs, file, predictReq, infoReq,
                   splitCall, libCall>>

\* accuracy = test(model, X_test, y_test), then the success response;
\* model.score is a collaborator call and may raise, which test re-raises
train_model_test ==
    /\ trainReq.pc = "Scoring"
    /\ \/ trainReq' =
            [trainReq EXCEPT
               !.pc = "Done",
               !.steps = Append(@, "Scoring"),
               !.response =
                  [status |-> "success", code |-> 200,
                   message |-> "Model trained successfully",
                   model_path |-> MODEL_PATH,
                   accuracy |-> test(trainReq.model,
                                     RowSet(trainReq.data, trainReq.split.test)),
                   train_samples |-> Shape0(trainReq.split.train),
                   test_samples |-> Shape0(trainReq.split.test)],
               !.data = <<>>, !.split = NoSplit, !.model = NoModel, !.written = 0]
       \/ trainReq' = TrainFailed(Raise("MemoryError", "could not allocate memory"))
    /\ UNCHANGED <<MODEL_PATH, writable, dirs, file, predictReq, infoReq,
                   splitCall, libCall>>

(***************************************************************************)
(* app.predict_endpoint (POST /predict), lines 75-122                      *)
(***************************************************************************)
IdlePredict ==
    [pc |-> "idle", body |-> Body("null", 0, <<>>, <<>>), absent |-> FALSE,
     loads |-> 0, loaded |-> NoResult, model |-> NoModel, estimator_calls |-> 0,
     raised |-> NoResult, response |-> NoResponse]

predict_endpoint_request ==
    /\ predictReq.pc \in {"idle", "done"}
    /\ \E b \in Bodies :
          predictReq' = [IdlePredict EXCEPT !.pc = "exists", !.body = b]
    /\ UNCHANGED <<MODEL_PATH, writable, dirs, file, trainReq, infoReq,
                   splitCall, libCall>>

\* if not os.path.exists(MODEL_PATH): 404
predict_endpoint_exists ==
    /\ predictReq.pc = "exists"
    /\ predictReq' =
         IF ~os_path_exists(file)
           THEN [predictReq EXCEPT !.pc = "done", !.absent = ~file.exists,
                                   !.response = ModelNotFound]
           ELSE [predictReq EXCEPT !.pc = "load", !.absent = ~file.exists]
    /\ UNCHANGED <<MODEL_PATH, writable, dirs, file, trainReq, infoReq,
                   splitCall, libCall>>

\* model = joblib.load(MODEL_PATH)
predict_endpoint_load ==
    /\ predictReq.pc = "load"
    /\ LET r == joblib_load(file)
       IN  predictReq' =
             IF r.ok
               THEN [predictReq EXCEPT !.pc = "features", !.loads = @ + 1,
                                       !.loaded = r, !.model = r.value]
               ELSE [predictReq EXCEPT !.pc = "done", !.loads = @ + 1,
                                       !.loaded = r, !.raised = r,
                                       !.response = Error500(r)]
    /\ UNCHANGED <<MODEL_PATH, writable, dirs, file, trainReq, infoReq,
                   splitCall, libCall>>

\* lines 89-122: the checks of the body, np.array, predict(model, X), the
\* response.  predict is given the loaded model, so model.predict is invoked.
predict_endpoint_features ==
    /\ predictReq.pc = "features"
    /\ LET features == predictReq.body
           r == predict(predictReq.model, np_array(features), NoPath, file)
       IN  predictReq' =
             IF ~Truthy(features)
               THEN [predictReq EXCEPT !.pc = "done", !.response = NoFeatures,
                                       !.model = NoModel]
             ELSE IF ~IsList(features)
               THEN [predictReq EXCEPT !.pc = "done", !.response = InvalidFormat,
                                       !.model = NoModel]
             ELSE IF r.ok
               THEN [predictReq EXCEPT
                       !.pc = "done", !.estimator_calls = @ + 1, !.model = NoModel,
                       !.response = [status |-> "success", code |-> 200,
                                     predictions |-> r.value]]
             ELSE [predictReq EXCEPT
                       !.pc = "done", !.estimator_calls = @ + 1, !.model = NoModel,
                       !.raised = r, !.response = Error500(r)]
    /\ UNCHANGED <<MODEL_PATH, writable, dirs, file, trainReq, infoReq,
                   splitCall, libCall>>

(***************************************************************************)
(* app.model_info (GET /info), lines 124-156                               *)
(***************************************************************************)
IdleInfo ==
    [pc |-> "idle", absent |-> FALSE, loads |-> 0, loaded |-> NoResult,
     raised |-> NoResult, response |-> NoResponse]

model_info_request ==
    /\ infoReq.pc \in {"idle", "done"}
    /\ infoReq' = [IdleInfo EXCEPT !.pc = "exists"]
    /\ UNCHANGED <<MODEL_PATH, writable, dirs, file, trainReq, predictReq,
                   splitCall, libCall>>

\* if not os.path.exists(MODEL_PATH): 404
model_info_exists ==
    /\ infoReq.pc = "exists"
    /\ infoReq' =
         IF ~os_path_exists(file)
           THEN [infoReq EXCEPT !.pc = "done", !.absent = ~file.exists,
                                !.response = ModelNotFound]
           ELSE [infoReq EXCEPT !.pc = "load", !.absent = ~file.exists]
    /\ UNCHANGED <<MODEL_PATH, writable, dirs, file, trainReq, predictReq,
                   splitCall, libCall>>

\* model = joblib.load(MODEL_PATH), then the model_info response
model_info_load ==
    /\ infoReq.pc = "load"
    /\ LET r == joblib_load(file)
       IN  infoReq' =
             IF r.ok
               THEN [infoReq EXCEPT
                       !.pc = "done", !.loads = @ + 1, !.loaded = r,
                       !.response =
                          [status |-> "success", code |-> 200,
                           model_info |->
                              [model_type |-> r.value.type,
                               parameters |-> r.value.params,
                               features_count |-> r.value.n_features_in_,
                               classes |-> r.value.classes_,
                               model_path |-> MODEL_PATH,
                               version |-> VERSION]]]
               ELSE [infoReq EXCEPT !.pc = "done", !.loads = @ + 1, !.loaded = r,
                                    !.raised = r, !.response = Error500(r)]
    /\ UNCHANGED <<MODEL_PATH, writable, dirs, file, trainReq, predictReq,
                   splitCall, libCall>>

(***************************************************************************)
(* Specifications                                                          *)
(***************************************************************************)
LibIdle ==
    [pc |-> "unused", X_train |-> {}, X |-> <<>>, model |-> NoModel,
     raised |-> NoResult, predictions |-> NoResult, predictions2 |-> NoResult]

SplitIdle == [data |-> <<>>, test_size |-> [num |-> 0, den |-> 1], result |-> NoResult]

ServiceIdle ==
    /\ trainReq = IdleTrain
    /\ predictReq = IdlePredict
    /\ infoReq = IdleInfo

\* the service: a fresh deployment, the three handlers running concurrently
Init ==
    /\ MODEL_PATH \in {AppPath, DefaultPath}
    /\ writable \in BOOLEAN
    /\ dirs = {}
    /\ file = NoFile
    /\ ServiceIdle
    /\ splitCall = SplitIdle
    /\ libCall = LibIdle

Next ==
    \/ train_model_request
    \/ train_model_load_data
    \/ train_model_preprocess_data
    \/ train_model_fit
    \/ train_model_dump_open
    \/ train_model_dump_write
    \/ train_model_dump_close
    \/ train_model_test
    \/ predict_endpoint_request
    \/ predict_endpoint_exists
    \/ predict_endpoint_load
    \/ predict_endpoint_features
    \/ model_info_request
    \/ model_info_exists
    \/ model_info_load

Spec == Init /\ [][Next]_vars

\* one call of preprocess_data on every small table and test_size
InitSplit ==
    /\ MODEL_PATH = AppPath
    /\ writable = TRUE
    /\ dirs = {}
    /\ file = NoFile
    /\ ServiceIdle
    /\ SplitInit
    /\ libCall = LibIdle

NextSplit ==
    /\ preprocess_data_call
    /\ UNCHANGED <<MODEL_PATH, writable, dirs, file, trainReq, predictReq, infoReq,
                   libCall>>

SpecSplit == InitSplit /\ [][NextSplit]_vars

\* the calls of test_predict, the temporary directory already there
InitLib ==
    /\ MODEL_PATH \in {TestPath, DefaultPath}
    /\ writable \in BOOLEAN
    /\ dirs = {<<"tmp">>}
    /\ file = NoFile
    /\ ServiceIdle
    /\ splitCall = SplitIdle
    /\ LibInit

NextLib ==
    \/ lib_train
    \/ lib_predict
    \/ lib_predict_path

SpecLib == InitLib /\ [][NextLib]_vars

(***************************************************************************)
(* Properties                                                              *)
(***************************************************************************)
\* the error kind a response carries, None when it has no such field
ResponseKind(r) == IF "kind" \in DOMAIN r THEN r.kind ELSE None

Requests == {trainReq, predictReq, infoReq}

\* C1: a train request that ends in Failed leaves the artifact file exactly
\* as it was when the request started.
C1_FailedTrainLeavesStore ==
    trainReq.pc = "Failed" => file = trainReq.before

\* C2: every load of the artifact, by predict or by info, returns a complete
\* artifact, never a partially written one.
C2_NoTornLoad ==
    /\ predictReq.loaded # NoResult => predictReq.loaded.ok
    /\ infoReq.loaded # NoResult => infoReq.loaded.ok

\* C3: a successful train request went Fetching, Splitting, Fitting, Scoring,
\* Persisting: the artifact is written only after the score is computed.
C3_ScoreBeforePersist ==
    trainReq.pc = "Done" =>
        trainReq.steps = <<"Fetching", "Splitting", "Fitting", "Scoring", "Persisting">>

\* C4: a predict request holding a vector whose length differs from the
\* artifact's feature dimension never invokes the estimator's predict.
C4_DimensionCheckedFirst ==
    ( /\ predictReq.pc = "done"
      /\ predictReq.loaded # NoResult
      /\ predictReq.loaded.ok
      /\ IsList(predictReq.body) /\ Truthy(predictReq.body)
      /\ \E i \in 1..Len(np_array(predictReq.body)) :
            Len(np_array(predictReq.body)[i]) # predictReq.loaded.value.n_features_in_ )
    => predictReq.estimator_calls = 0

\* C5: when the existence check finds no artifact, predict and info answer
\* ModelNotTrained (the 404 response) at once, whatever the body, and load
\* nothing.
C5_ModelNotTrained ==
    /\ predictReq.absent =>
          /\ predictReq.pc = "done"
          /\ predictReq.response = ModelNotFound
          /\ predictReq.loads = 0
    /\ infoReq.absent =>
          /\ infoReq.pc = "done"
          /\ infoReq.response = ModelNotFound
          /\ infoReq.loads = 0

C5_Witness ==
    /\ predictReq.absent /\ predictReq.pc = "done"
    /\ IsList(predictReq.body) /\ Truthy(predictReq.body)
    /\ predictReq.response = ModelNotFound
    /\ infoReq.absent /\ infoReq.pc = "done"

\* C6: every failure raised inside train, predict or info reaches the caller
\* as an error that carries the failure's own kind.
C6_KindSurfaced ==
    \A q \in Requests :
        q.raised # NoResult => ResponseKind(q.response) = q.raised.type

\* C7: with an artifact loaded, every body that is not a list is answered
\* InvalidInput and every empty list EmptyInput, never the other way round.
C7_BodyClassified ==
    (predictReq.pc = "done" /\ predictReq.loaded # NoResult /\ predictReq.loaded.ok)
    => /\ ~IsList(predictReq.body) => predictReq.response = InvalidFormat
       /\ (IsList(predictReq.body) /\ ~Truthy(predictReq.body)) =>
             predictReq.response = NoFeatures
       /\ (~IsList(predictReq.body) \/ ~Truthy(predictReq.body)) =>
             predictReq.estimator_calls = 0

\* C8: after train saved the model, predict with model=None and the path
\* returns exactly what predict with the in-memory model returns; for a batch
\* of the fitted width that is one label per row, each a class seen at fit.
C8_RoundTrip ==
    libCall.pc = "done" =>
        /\ libCall.predictions2 = libCall.predictions
        /\ (\A i \in 1..Len(libCall.X) :
               Len(libCall.X[i]) = libCall.model.n_features_in_) =>
             /\ libCall.predictions.ok
             /\ Len(libCall.predictions.value) = Len(libCall.X)
             /\ \A i \in 1..Len(libCall.X) :
                   libCall.predictions.value[i] \in {r.y : r \in libCall.X_train}

C8_Witness ==
    /\ libCall.pc = "done"
    /\ libCall.predictions2.ok
    /\ Len(libCall.predictions2.value) = 2
    /\ libCall.predictions2.value[1] # libCall.predictions2.value[2]

\* ceil(test_size * n), stated without the code's own arithmetic
CeilShare(n, test_size) ==
    CHOOSE t \in 0..n :
        /\ test_size.den * t >= test_size.num * n
        /\ test_size.den * (t - 1) < test_size.num * n

SplitInput ==
    /\ splitCall.result # NoResult
    /\ Len(splitCall.data) >= 1
    /\ \A c \in LabelsOf(splitCall.data) :
          Cardinality(RowsOfClass(splitCall.data, c)) >= 2
    /\ splitCall.test_size.num > 0
    /\ splitCall.test_size.num < splitCall.test_size.den

SplitIsPartition ==
    LET n == Len(splitCall.data)
        r == splitCall.result
    IN  /\ r.ok
        /\ r.value.train \cap r.value.test = {}
        /\ r.value.train \cup r.value.test = 1..n
        /\ Shape0(r.value.train) + Shape0(r.value.test) = n
        /\ Shape0(r.value.test) = CeilShare(n, splitCall.test_size)

\* C9 as stated: every table with at least 2 rows per class and every test
\* fraction in (0,1) is split into a partition with ceil(fraction * rows)
\* test rows.
C9_EverySplitPartitions == SplitInput => SplitIsPartition

\* C9 amended: the same, for the tables and fractions whose test count
\* ceil(fraction * rows) and train count are both at least the number of
\* classes; 150 rows of 3 classes by 50 at 0.2 give 30 test rows, 10 per class.
C9_SplitPartitions ==
    /\ ( /\ SplitInput
         /\ CeilShare(Len(splitCall.data), splitCall.test_size)
               >= Cardinality(LabelsOf(splitCall.data))
         /\ Len(splitCall.data) - CeilShare(Len(splitCall.data), splitCall.test_size)
               >= Cardinality(LabelsOf(splitCall.data)) )
       => SplitIsPartition
    /\ n_test_of(150, [num |-> 1, den |-> 5]) = 30
    /\ n_train_of(150, [num |-> 1, den |-> 5]) = 120
    /\ _approximate_mode([c \in Classes |-> 50], n_train_of(150, [num |-> 1, den |-> 5]))
          = {[c \in Classes |-> 40]}
    /\ _approximate_mode([c \in Classes |-> 10], n_test_of(150, [num |-> 1, den |-> 5]))
          = {[c \in Classes |-> 10]}

\* the fixture of test_preprocess_data: 6 rows, 3 classes by 2, split 3 and 3
C9_Witness ==
    /\ SplitInput
    /\ splitCall.result.ok
    /\ Len(splitCall.data) = 6
    /\ Cardinality(LabelsOf(splitCall.data)) = 3
    /\ Shape0(splitCall.result.value.test) = 3
    /\ Shape0(splitCall.result.value.train) = 3

\* C10: train's save succeeds for every writable location, a bare file name
\* with no parent included.
C10_SaveSucceeds ==
    (writable /\ libCall.pc # "start") => (libCall.pc # "failed" /\ file.exists)

====
